---- MODULE Spec2Model ----
(***************************************************************************)
(* Model of the bakery order assistant (src/main.py).                      *)
(*                                                                         *)
(* Text is a sequence of one-character tokens.  ASCII characters stand for *)
(* themselves; the non-ASCII characters the program meets are written      *)
(*   "a~" = a with tilde     "A~" = A with tilde                           *)
(*   "e^" = e circumflex     "c_" = c cedilla                              *)
(*   "--" = the em dash U+2014 of the price list                           *)
(* Money is a float in the program; every price has exactly two decimals   *)
(* (the extraction pattern demands them), so amounts are modelled as exact *)
(* decimals counted in thousandths (1000 = R$1.00).                        *)
(***************************************************************************)
EXTENDS Integers, Sequences, FiniteSets, TLC

(***************************************************************************)
(* Bounds of the model.                                                    *)
(***************************************************************************)
MaxSessions == 2
MaxRounds == 2

(***************************************************************************)
(* Call by value.  Python evaluates an argument, or the right-hand side of *)
(* an assignment, once; a bound variable is the construct TLC evaluates    *)
(* once, so the functions of the program bind their arguments and locals.  *)
(***************************************************************************)
Bind(e, F(_)) == CHOOSE r \in {F(x) : x \in {e}} : TRUE

Bind2(e1, e2, F(_, _)) == CHOOSE r \in {F(x, y) : x \in {e1}, y \in {e2}} : TRUE

(***************************************************************************)
(* Characters.                                                             *)
(***************************************************************************)
Digits == <<"0", "1", "2", "3", "4", "5", "6", "7", "8", "9">>

IsDigit(c) == \E i \in 1..10 : Digits[i] = c

DigitVal(c) == (CHOOSE i \in 1..10 : Digits[i] = c) - 1

\* str.isspace for the characters of the model
IsSpace(c) == c \in {" ", "\n", "\t"}

\* str.lower, one character
LowerChar(c) ==
    CASE c = "A" -> "a" [] c = "B" -> "b" [] c = "C" -> "c" [] c = "E" -> "e"
      [] c = "F" -> "f" [] c = "I" -> "i" [] c = "L" -> "l" [] c = "N" -> "n"
      [] c = "O" -> "o" [] c = "P" -> "p" [] c = "R" -> "r" [] c = "S" -> "s"
      [] c = "T" -> "t" [] c = "X" -> "x" [] c = "Z" -> "z" [] c = "A~" -> "a~"
      [] OTHER -> c

\* unicodedata.normalize('NFD', c) with the combining marks (category Mn)
\* dropped: the base letter of an accented letter, any other character as is
BaseChar(c) ==
    CASE c = "a~" -> "a" [] c = "A~" -> "A" [] c = "e^" -> "e" [] c = "c_" -> "c"
      [] OTHER -> c

\* ord(c): the code point, which orders strings in tuple comparisons
Ord(c) ==
    CASE c = "\t" -> 9 [] c = "\n" -> 10 [] c = " " -> 32 [] c = "$" -> 36
      [] c = "'" -> 39 [] c = "," -> 44 [] c = "." -> 46 [] c = ":" -> 58
      [] c = "|" -> 124
      [] IsDigit(c) -> 48 + DigitVal(c)
      [] c = "A" -> 65 [] c = "B" -> 66 [] c = "C" -> 67 [] c = "D" -> 68
      [] c = "E" -> 69 [] c = "F" -> 70 [] c = "I" -> 73 [] c = "L" -> 76
      [] c = "N" -> 78 [] c = "O" -> 79 [] c = "P" -> 80 [] c = "R" -> 82
      [] c = "S" -> 83 [] c = "T" -> 84 [] c = "X" -> 88 [] c = "Z" -> 90
      [] c = "a" -> 97 [] c = "b" -> 98 [] c = "c" -> 99 [] c = "d" -> 100
      [] c = "e" -> 101 [] c = "f" -> 102 [] c = "h" -> 104 [] c = "i" -> 105
      [] c = "l" -> 108 [] c = "m" -> 109 [] c = "n" -> 110 [] c = "o" -> 111
      [] c = "p" -> 112 [] c = "q" -> 113 [] c = "r" -> 114 [] c = "s" -> 115
      [] c = "t" -> 116 [] c = "u" -> 117 [] c = "v" -> 118 [] c = "x" -> 120
      [] c = "y" -> 121 [] c = "z" -> 122
      [] c = "A~" -> 195 [] c = "a~" -> 227 [] c = "c_" -> 231 [] c = "e^" -> 234
      [] c = "--" -> 8212
      [] OTHER -> 65533

(***************************************************************************)
(* Strings.                                                                *)
(***************************************************************************)
\* s[i:j] of Python with 1-based inclusive ends
Slice(s, i, j) == IF i > j THEN <<>> ELSE SubSeq(s, i, j)

\* str.lower
lower(s0) == Bind(s0, LAMBDA s : [i \in 1..Len(s) |-> LowerChar(s[i])])

\* str.strip
strip(s0) ==
    Bind(s0, LAMBDA s :
        Bind({i \in 1..Len(s) : ~IsSpace(s[i])}, LAMBDA keep :
            IF keep = {} THEN <<>>
            ELSE SubSeq(s, CHOOSE x \in keep : \A y \in keep : x <= y,
                           CHOOSE x \in keep : \A y \in keep : x >= y)))

\* str.startswith
startswith(s, prefix) ==
    /\ Len(s) >= Len(prefix)
    /\ SubSeq(s, 1, Len(prefix)) = prefix

\* str.replace for one character by another
replace(s0, old, new) ==
    Bind(s0, LAMBDA s : [i \in 1..Len(s) |-> IF s[i] = old THEN new ELSE s[i]])

\* the k-th smallest element of a set of numbers
Kth(S, k) == CHOOSE x \in S : Cardinality({y \in S : y < x}) = k - 1

\* str.split(c): the pieces between the occurrences of c, empty ones kept;
\* piece k lies between the (k-1)-th and the k-th occurrence
split(s0, c) ==
    Bind(s0, LAMBDA s :
        Bind({i \in 1..Len(s) : s[i] = c} \cup {0, Len(s) + 1}, LAMBDA cuts :
            [k \in 1..(Cardinality(cuts) - 1) |->
                Slice(s, Kth(cuts, k) + 1, Kth(cuts, k + 1) - 1)]))

\* str.splitlines: as split on the line break, without a last empty line
splitlines(s) ==
    Bind(split(s, "\n"), LAMBDA parts :
        IF parts[Len(parts)] = <<>> THEN SubSeq(parts, 1, Len(parts) - 1) ELSE parts)

RECURSIVE JoinFrom(_, _, _)
JoinFrom(parts, sep, i) ==
    IF i > Len(parts) THEN <<>>
    ELSE IF i = Len(parts) THEN parts[i]
    ELSE parts[i] \o sep \o JoinFrom(parts, sep, i + 1)

\* sep.join(parts)
join(sep, parts0) == Bind(parts0, LAMBDA parts : JoinFrom(parts, sep, 1))

RECURSIVE ParseDigits(_, _)
ParseDigits(s, acc) ==
    IF s = <<>> THEN acc ELSE ParseDigits(Tail(s), 10 * acc + DigitVal(Head(s)))

\* int(s) for a run of decimal digits
int(s0) == Bind(s0, LAMBDA s : ParseDigits(s, 0))

RECURSIVE str(_)
\* str(n) for n >= 0
str(n0) ==
    Bind(n0, LAMBDA n :
        IF n < 10 THEN <<Digits[n + 1]>> ELSE Append(str(n \div 10), Digits[(n % 10) + 1]))

\* the length of the run of characters satisfying the class, from position i
RECURSIVE DigitRun(_, _)
DigitRun(s, i) == IF i <= Len(s) /\ IsDigit(s[i]) THEN 1 + DigitRun(s, i + 1) ELSE 0

RECURSIVE SpaceRun(_, _)
SpaceRun(s, i) == IF i <= Len(s) /\ IsSpace(s[i]) THEN 1 + SpaceRun(s, i + 1) ELSE 0

(***************************************************************************)
(* Amounts: thousandths of the currency unit.                              *)
(***************************************************************************)
\* the nearest whole number of cents, ties to the even one
RoundCents(m0) ==
    Bind(m0, LAMBDA m :
        LET q == m \div 10
            r == m % 10
        IN  IF r < 5 THEN q
            ELSE IF r > 5 THEN q + 1
            ELSE IF q % 2 = 0 THEN q ELSE q + 1)

\* round(x, 2)
round2(m) == 10 * RoundCents(m)

\* float(preco_str) for digits, a period and two digits
float(preco_str0) ==
    Bind(preco_str0, LAMBDA preco_str :
        LET n == Len(preco_str)
        IN  1000 * int(SubSeq(preco_str, 1, n - 3))
              + 100 * DigitVal(preco_str[n - 1]) + 10 * DigitVal(preco_str[n]))

\* the two decimals of a whole number of cents
Decimals(cents) == <<".", Digits[((cents % 100) \div 10) + 1], Digits[(cents % 10) + 1]>>

\* f"{x:.2f}"
fmt2f(m) == Bind(RoundCents(m), LAMBDA cents : str(cents \div 100) \o Decimals(cents))

RECURSIVE Grouped(_)
Grouped(n0) ==
    Bind(n0, LAMBDA n :
        IF n < 1000 THEN str(n)
        ELSE Grouped(n \div 1000) \o <<",">>
               \o <<Digits[((n % 1000) \div 100) + 1], Digits[((n % 100) \div 10) + 1],
                    Digits[(n % 10) + 1]>>)

\* f"{x:,.2f}"
fmt2f_milhar(m) ==
    Bind(RoundCents(m), LAMBDA cents : Grouped(cents \div 100) \o Decimals(cents))

(***************************************************************************)
(* load_pdf_text: a PDF is [legivel, paginas]; paginas holds the text each *)
(* page yields (<<>> for a page without text).                             *)
(***************************************************************************)
ERRO_PDF == <<"E", "r", "r", "o", " ", "a", "o", " ", "l", "e", "r", " ", "o", " ", "P", "D", "F", ":", " ">>

ARQUIVO_NAO_ENCONTRADO ==
    <<"A", "r", "q", "u", "i", "v", "o", " ", "'", "L", "i", "s", "t", "a", "P", "r", "e",
      "c", "o", "s", "L", "L", "M", ".", "p", "d", "f", "'", " ", "n", "a~", "o", " ", "e",
      "n", "c", "o", "n", "t", "r", "a", "d", "o", ".">>

RECURSIVE PagesText(_, _)
PagesText(paginas, i) ==
    IF i > Len(paginas) THEN <<>>
    ELSE (IF paginas[i] # <<>> THEN paginas[i] \o <<"\n">> ELSE <<>>)
           \o PagesText(paginas, i + 1)

load_pdf_text(pdf0) ==
    Bind(pdf0, LAMBDA pdf :
        IF pdf.legivel THEN strip(PagesText(pdf.paginas, 1))
        ELSE ERRO_PDF \o ARQUIVO_NAO_ENCONTRADO)

(***************************************************************************)
(* extract_products                                                        *)
(***************************************************************************)
NoMatch == [found |-> FALSE]

\* \s*--\s*R\$\s*(\d+[,.]\d{2}) matched at position j of s: the price text
PatternTail(s, j) ==
    Bind(j + SpaceRun(s, j), LAMBDA j1 :
    Bind(j1 + 1 + SpaceRun(s, j1 + 1), LAMBDA j2 :
    Bind(j2 + 2 + SpaceRun(s, j2 + 2), LAMBDA j3 :
    Bind(DigitRun(s, j3), LAMBDA d :
        IF /\ j3 + d + 2 <= Len(s)
           /\ s[j1] = "--"
           /\ s[j2] = "R" /\ s[j2 + 1] = "$"
           /\ d >= 1
           /\ s[j3 + d] \in {",", "."}
           /\ IsDigit(s[j3 + d + 1]) /\ IsDigit(s[j3 + d + 2])
        THEN [found |-> TRUE, preco |-> SubSeq(s, j3, j3 + d + 2)]
        ELSE NoMatch))))

\* the ends e of a first group s[a..e] that lets the rest of the pattern
\* match; (.+) takes no line break
MatchEnds(s, a) ==
    {e \in a..Len(s) : (\A k \in a..e : s[k] # "\n") /\ PatternTail(s, e + 1).found}

\* re.search(r"(.+?)\s*--\s*R\$\s*(\d+[,.]\d{2})", s): the leftmost start, and
\* for it the shortest first group, (.+?) being lazy
pattern_search(s0) ==
    Bind(s0, LAMBDA s :
        Bind({a \in 1..Len(s) : MatchEnds(s, a) # {}}, LAMBDA starts :
            IF starts = {} THEN NoMatch
            ELSE Bind(Kth(starts, 1), LAMBDA a :
                 Bind(Kth(MatchEnds(s, a), 1), LAMBDA e :
                    [found |-> TRUE, group1 |-> SubSeq(s, a, e),
                     group2 |-> PatternTail(s, e + 1).preco]))))

\* lines 68-78: the products of one '|'-separated piece of a line (none or one)
ExtractPart(part) ==
    Bind(pattern_search(strip(part)), LAMBDA match :
        IF match.found
        THEN <<[nome |-> strip(match.group1),
                preco |-> float(replace(match.group2, ",", "."))]>>
        ELSE <<>>)

RECURSIVE ExtractParts(_, _)
ExtractParts(parts, i) ==
    IF i > Len(parts) THEN <<>> ELSE ExtractPart(parts[i]) \o ExtractParts(parts, i + 1)

RECURSIVE ExtractLines(_, _)
ExtractLines(lines, i) ==
    IF i > Len(lines) THEN <<>>
    ELSE Bind(split(lines[i], "|"), LAMBDA parts : ExtractParts(parts, 1))
           \o ExtractLines(lines, i + 1)

extract_products(pdf_text) ==
    Bind(splitlines(pdf_text), LAMBDA lines : ExtractLines(lines, 1))

(***************************************************************************)
(* remover_acentos                                                         *)
(***************************************************************************)
remover_acentos(texto0) ==
    Bind(texto0, LAMBDA texto : [i \in 1..Len(texto) |-> BaseChar(texto[i])])

(***************************************************************************)
(* difflib.get_close_matches(word, possibilities, n=1, cutoff=0.6), as the  *)
(* library computes it: SequenceMatcher with a = the candidate, b = word,  *)
(* no junk (the automatic junk heuristic needs 200 characters).            *)
(***************************************************************************)
\* the length of the common run of a from i and b from j, within the ends
RECURSIVE CommonRun(_, _, _, _, _, _)
CommonRun(a, b, i, j, ahi, bhi) ==
    IF i <= ahi /\ j <= bhi /\ a[i] = b[j]
    THEN 1 + CommonRun(a, b, i + 1, j + 1, ahi, bhi)
    ELSE 0

\* SequenceMatcher.find_longest_match on a[alo..ahi], b[blo..bhi]: the longest
\* common block; of those the earliest in a; of those the earliest in b
find_longest_match(a, b, alo, ahi, blo, bhi) ==
    Bind({c \in {<<i, j, CommonRun(a, b, i, j, ahi, bhi)>> : i \in alo..ahi, j \in blo..bhi} :
             c[3] > 0},
         LAMBDA hits :
            IF hits = {} THEN <<alo, blo, 0>>
            ELSE CHOOSE x \in hits : \A y \in hits :
                    \/ x[3] > y[3]
                    \/ (x[3] = y[3] /\ x[1] < y[1])
                    \/ (x[3] = y[3] /\ x[1] = y[1] /\ x[2] <= y[2]))

\* the number of matched characters: the sum of the sizes of
\* SequenceMatcher.get_matching_blocks, found block by block to the left and
\* to the right of the longest one
RECURSIVE Matches(_, _, _, _, _, _)
Matches(a, b, alo, ahi, blo, bhi) ==
    IF alo > ahi \/ blo > bhi THEN 0
    ELSE Bind(find_longest_match(a, b, alo, ahi, blo, bhi), LAMBDA m :
            IF m[3] = 0 THEN 0
            ELSE m[3] + Matches(a, b, alo, m[1] - 1, blo, m[2] - 1)
                      + Matches(a, b, m[1] + m[3], ahi, m[2] + m[3], bhi))

\* SequenceMatcher.ratio() = 2.0 * matches / (len(a) + len(b)), kept as the
\* fraction <<numerator, denominator>>; 1.0 when both are empty
ratio(a0, b0) ==
    Bind2(a0, b0, LAMBDA a, b :
        IF Len(a) + Len(b) = 0 THEN <<1, 1>>
        ELSE <<2 * Matches(a, b, 1, Len(a), 1, Len(b)), Len(a) + Len(b)>>)

\* the similarity threshold, in tenths
CUTOFF_TENTHS == 6

\* ratio >= cutoff
MeetsCutoff(r) == 10 * r[1] >= CUTOFF_TENTHS * r[2]

RECURSIVE StrLess(_, _)
\* x < y for Python strings
StrLess(x, y) ==
    IF y = <<>> THEN FALSE
    ELSE IF x = <<>> THEN TRUE
    ELSE IF Ord(Head(x)) # Ord(Head(y)) THEN Ord(Head(x)) < Ord(Head(y))
    ELSE StrLess(Tail(x), Tail(y))

\* (score1, x1) <= (score2, x2) for the tuples heapq.nlargest compares
ScoredLeq(r1, x1, r2, x2) ==
    \/ r1[1] * r2[2] < r2[1] * r1[2]
    \/ (r1[1] * r2[2] = r2[1] * r1[2] /\ (x1 = x2 \/ StrLess(x1, x2)))

\* the candidates at or above the cutoff as <<score, x>>, and the largest
get_close_matches(word0, possibilities0) ==
    Bind2(word0, possibilities0, LAMBDA word, possibilities :
        Bind({sx \in {<<ratio(possibilities[i], word), possibilities[i]>> :
                        i \in 1..Len(possibilities)} : MeetsCutoff(sx[1])},
             LAMBDA result :
                IF result = {} THEN <<>>
                ELSE <<(CHOOSE best \in result : \A other \in result :
                           ScoredLeq(other[1], other[2], best[1], best[2]))[2]>>))

(***************************************************************************)
(* calcular_pedido_completo                                                *)
(***************************************************************************)
RECURSIVE ReSplitFrom(_, _, _)
ReSplitFrom(s, i, cur) ==
    IF i > Len(s) THEN <<cur>>
    ELSE IF s[i] = "," THEN <<cur>> \o ReSplitFrom(s, i + 1, <<>>)
    ELSE IF i + 2 <= Len(s) /\ s[i] = " " /\ s[i + 1] = "e" /\ s[i + 2] = " "
         THEN <<cur>> \o ReSplitFrom(s, i + 3, <<>>)
    ELSE ReSplitFrom(s, i + 1, Append(cur, s[i]))

\* re.split(r',| e ', s)
re_split(s0) == Bind(s0, LAMBDA s : ReSplitFrom(s, 1, <<>>))

RECURSIVE StripNonEmpty(_, _)
\* [p.strip() for p in palavras if p.strip()]
StripNonEmpty(parts, i) ==
    IF i > Len(parts) THEN <<>>
    ELSE Bind(strip(parts[i]), LAMBDA p : IF p # <<>> THEN <<p>> ELSE <<>>)
           \o StripNonEmpty(parts, i + 1)

\* lines 136-137: the phrases of an order
palavras_de(pedido) ==
    Bind(re_split(remover_acentos(lower(pedido))), LAMBDA palavras :
        StripNonEmpty(palavras, 1))

\* lines 145-152: re.match(r'(\d+)\s+(.+)', palavra) and the two branches;
\* \s+ gives its last character back when nothing else is left for (.+)
qtd_e_nome(palavra0) ==
    Bind(palavra0, LAMBDA palavra :
    Bind(DigitRun(palavra, 1), LAMBDA d :
    Bind(SpaceRun(palavra, 1 + d), LAMBDA w :
        IF d >= 1 /\ w >= 1 /\ 1 + d + w <= Len(palavra)
        THEN [qtd |-> int(SubSeq(palavra, 1, d)),
              prod_nome_raw |-> strip(SubSeq(palavra, 1 + d + w, Len(palavra)))]
        ELSE IF d >= 1 /\ w >= 2
        THEN [qtd |-> int(SubSeq(palavra, 1, d)), prod_nome_raw |-> <<>>]
        ELSE [qtd |-> 1, prod_nome_raw |-> palavra])))

\* line 128
nomes_prod_norm(produtos0) ==
    Bind(produtos0, LAMBDA produtos :
        [i \in 1..Len(produtos) |-> remover_acentos(lower(produtos[i].nome))])

\* lines 131-133 and 159: the dict keeps, for a normalized name, the last
\* product that has it
mapa_produtos(produtos0, nome_norm0) ==
    Bind2(produtos0, nome_norm0, LAMBDA produtos, nome_norm :
        Bind({i \in 1..Len(produtos) :
                 remover_acentos(lower(produtos[i].nome)) = nome_norm},
             LAMBDA idx : produtos[CHOOSE i \in idx : \A k \in idx : k <= i]))

ITEM_SEP == <<" ", "--", " ", "R", "$">>

\* line 164
item_text(qtd, nome_original, subtotal) ==
    str(qtd) \o <<" ">> \o nome_original \o ITEM_SEP \o fmt2f(subtotal)

\* line 161 without the quantity
subtotal_de_sem_qtd(preco, qtd) == preco

\* line 161
subtotal_de(preco, qtd) == preco * qtd

\* the loop body without the else branch of lines 165-167: a phrase that
\* matches nothing leaves no trace
LoopBody_sem_aviso(acc, palavra, produtos) ==
    Bind(qtd_e_nome(palavra), LAMBDA qn :
    Bind(get_close_matches(qn.prod_nome_raw, nomes_prod_norm(produtos)), LAMBDA match :
        IF match # <<>>
        THEN Bind(mapa_produtos(produtos, match[1]), LAMBDA p :
                [total |-> acc.total + p.preco * qn.qtd,
                 itens_pedidos |-> Append(acc.itens_pedidos,
                                          item_text(qn.qtd, p.nome, p.preco * qn.qtd)),
                 avisos |-> acc.avisos])
        ELSE acc))

\* lines 144-167, one turn of the loop: the locals after it
LoopBody(acc, palavra, produtos) ==
    Bind(qtd_e_nome(palavra), LAMBDA qn :
    Bind(get_close_matches(qn.prod_nome_raw, nomes_prod_norm(produtos)), LAMBDA match :
        IF match # <<>>
        THEN Bind(mapa_produtos(produtos, match[1]), LAMBDA p :
             Bind(subtotal_de(p.preco, qn.qtd), LAMBDA subtotal :
                [total |-> acc.total + subtotal,
                 itens_pedidos |-> Append(acc.itens_pedidos,
                                          item_text(qn.qtd, p.nome, subtotal)),
                 avisos |-> acc.avisos]))
        ELSE [total |-> acc.total,
              itens_pedidos |-> acc.itens_pedidos,
              avisos |-> Append(acc.avisos, qn.prod_nome_raw)]))

RECURSIVE Loop(_, _, _, _)
Loop(acc, palavras, i, produtos) ==
    IF i > Len(palavras) THEN acc
    ELSE Bind(LoopBody(acc, palavras[i], produtos), LAMBDA depois :
            Loop(depois, palavras, i + 1, produtos))

\* the call: what it returns (total, itens) and the warnings it prints
calcular_pedido_completo(pedido, produtos0) ==
    Bind2(palavras_de(pedido), produtos0, LAMBDA palavras, produtos :
    Bind(Loop([total |-> 0, itens_pedidos |-> <<>>, avisos |-> <<>>], palavras, 1, produtos),
         LAMBDA fim :
            [total |-> round2(fim.total), itens |-> fim.itens_pedidos,
             avisos |-> fim.avisos]))

(***************************************************************************)
(* ask_llm: the service either answers with a text or fails with an error. *)
(***************************************************************************)
DESCULPE ==
    <<"D", "e", "s", "c", "u", "l", "p", "e", ",", " ", "h", "o", "u", "v", "e", " ", "u",
      "m", " ", "e", "r", "r", "o", " ", "a", "o", " ", "c", "o", "m", "u", "n", "i", "c",
      "a", "r", " ", "c", "o", "m", " ", "a", " ", "I", "A", ":", " ">>

\* ask_llm without its except clause: a failure of the service propagates
ask_llm_sem_except(svc) ==
    IF svc.ok THEN [raised |-> FALSE, value |-> svc.content]
    ELSE [raised |-> TRUE, value |-> svc.erro]

\* what a call returns: [raised, value]; lines 107-117 catch every failure of
\* the service and return the apology instead
ask_llm(svc) ==
    IF svc.ok THEN [raised |-> FALSE, value |-> svc.content]
    ELSE [raised |-> FALSE, value |-> DESCULPE \o svc.erro]

(***************************************************************************)
(* The inputs of the model.                                                *)
(***************************************************************************)
PDF_PADARIA ==
    [legivel |-> TRUE,
     paginas |-> << <<"P", "a~", "o", " ", "--", " ", "R", "$", "0", ",", "8", "0">>,
                    <<>>,
                    <<"B", "o", "l", "o", " ", "--", " ", "R", "$", "3", "8", ",", "0", "0">> >>]

PDF_BRINDE ==
    [legivel |-> TRUE,
     paginas |-> << <<"C", "h", "a", " ", "--", " ", "R", "$", "0", ",", "0", "0", " ", "|",
                      " ", "B", "o", "l", "o", " ", "--", " ", "R", "$", "2", ",", "5", "0">> >>]

PDF_ERROS ==
    [legivel |-> TRUE,
     paginas |-> << <<"E", "r", "r", "o", "s", "\n",
                      "B", "o", "l", "o", " ", "--", " ", "R", "$", "2", ",", "5", "0">> >>]

PDF_SEM_PRECOS ==
    [legivel |-> TRUE, paginas |-> << <<"C", "a", "r", "d", "a", "p", "i", "o">> >>]

PDF_AUSENTE == [legivel |-> FALSE, paginas |-> <<>>]

PDFS == {PDF_PADARIA, PDF_BRINDE, PDF_ERROS, PDF_SEM_PRECOS, PDF_AUSENTE}

\* lines typed at the name prompt
NOMES == {<<"A", "n", "a">>, <<" ", "C", "l", "i", "e", "n", "t", "e">>}

\* lines typed at the order prompt
PEDIDOS ==
    {<<" ", "S", "A", "I", "R", " ">>,
     <<"x">>,
     <<" ">>,
     <<"2", " ", "p", "a~", "o", " ", "e", " ", "1", " ", "b", "o", "l", "o">>,
     <<"0", " ", "b", "o", "l", "o">>,
     <<"3", " ", "x", "y", "z", ",", " ", "c", "h", "a">>}

\* lines typed at the continue question
CONTINUAR == {<<"S", " ">>, <<"s", "i", "m">>, <<"n">>, <<>>}

\* outcomes of one call of the conversational service
SERVICO ==
    {[ok |-> TRUE, content |-> <<"o", "k">>],
     [ok |-> TRUE, content |-> <<"T", "o", "t", "a", "l", ":", " ", "R", "$", "1">>],
     [ok |-> FALSE, erro |-> <<"t", "i", "m", "e", "o", "u", "t">>]}

(***************************************************************************)
(* main, step by step.  A run is the record of main's locals, its position *)
(* pc, the PDF it found (pdf), the last line it read (entrada), what it    *)
(* has shown so far (saida), how often it called the service and the       *)
(* aggregation, and the file pedidos.csv it writes to.                     *)
(***************************************************************************)
ERRO == <<"E", "r", "r", "o">>

SAIR == {<<"s", "a", "i", "r">>, <<"f", "i", "n", "a", "l", "i", "z", "a", "r">>, <<"x">>}

SIM == {<<"s">>, <<"s", "i", "m">>}

CABECALHO == <<<<"C", "l", "i", "e", "n", "t", "e">>, <<"I", "t", "e", "n", "s">>,
               <<"T", "o", "t", "a", "l">>>>

\* a run before main starts, with the file as the runs before left it
NewRun(csv) ==
    [pc |-> "inicio", pdf |-> PDF_AUSENTE, entrada |-> <<>>, pdf_text |-> <<>>, produtos_cardapio |-> <<>>, cliente |-> <<>>,
     total_final |-> 0, todos_itens |-> <<>>, pedido_text |-> <<>>, resposta |-> <<>>,
     total |-> 0, itens |-> <<>>, avisos |-> <<>>, continuar |-> <<>>,
     saida |-> {}, chamadas_llm |-> 0, chamadas_calculo |-> 0, csv |-> csv]

\* lines 192-209: load, extract, show the menu, ask for the name
DoLoad(r, pdf) ==
    Bind(load_pdf_text(pdf), LAMBDA pdf_text :
    Bind(IF startswith(pdf_text, ERRO) THEN <<>> ELSE extract_products(pdf_text),
         LAMBDA produtos_cardapio :
        IF startswith(pdf_text, ERRO)
        THEN [r EXCEPT !.pc = "abortado", !.pdf = pdf, !.pdf_text = pdf_text,
                       !.saida = @ \cup {"erro_pdf"}]
        ELSE IF produtos_cardapio = <<>>
        THEN [r EXCEPT !.pc = "abortado", !.pdf = pdf, !.pdf_text = pdf_text,
                       !.saida = @ \cup {"erro_sem_produtos"}]
        ELSE [r EXCEPT !.pc = "nome", !.pdf = pdf, !.pdf_text = pdf_text,
                       !.produtos_cardapio = produtos_cardapio,
                       !.saida = @ \cup {"cardapio", "prompt_nome"}]))

\* lines 209-217: read the name, greet, ask for the order
DoNome(r, linha) ==
    [r EXCEPT !.pc = "pedido", !.entrada = linha, !.cliente = strip(linha),
              !.saida = @ \cup {"prompt_pedido"}]

\* the comparison of line 219 without lower()
is_sair_sem_lower(pedido_text) == pedido_text \in SAIR

\* line 219
is_sair(pedido_text) == lower(pedido_text) \in SAIR

\* lines 217-223: read the order text; leave the loop, ask again, or go on
DoPedido(r, linha) ==
    Bind(strip(linha), LAMBDA pedido_text :
        IF is_sair(pedido_text)
        THEN [r EXCEPT !.pc = "finalizacao", !.entrada = linha,
                       !.pedido_text = pedido_text]
        ELSE IF pedido_text = <<>>
        THEN [r EXCEPT !.pc = "pedido", !.entrada = linha, !.pedido_text = pedido_text]
        ELSE [r EXCEPT !.pc = "llm", !.entrada = linha, !.pedido_text = pedido_text])

\* lines 226-227: the call of the service and the answer shown
DoLLM(r, svc) ==
    Bind(ask_llm(svc), LAMBDA resposta :
        IF resposta.raised
        THEN [r EXCEPT !.pc = "falha", !.chamadas_llm = @ + 1]
        ELSE [r EXCEPT !.pc = "calculo", !.resposta = resposta.value,
                       !.chamadas_llm = @ + 1, !.saida = @ \cup {"assistente"}])

\* the test of line 232 with >= in place of >
conta_rodada_com_zero(total) == total >= 0

\* line 232
conta_rodada(total) == total > 0

\* lines 230-241: aggregate, add to the session, ask whether to continue
DoCalculo(r) ==
    Bind(calcular_pedido_completo(r.pedido_text, r.produtos_cardapio), LAMBDA res :
    Bind([r EXCEPT !.pc = "continuar", !.total = res.total, !.itens = res.itens,
                   !.avisos = res.avisos, !.chamadas_calculo = @ + 1,
                   !.saida = @ \cup (IF res.avisos # <<>> THEN {"aviso"} ELSE {})
                              \cup {"prompt_continuar"}],
         LAMBDA base :
            IF conta_rodada(res.total)
            THEN [base EXCEPT !.total_final = @ + res.total,
                              !.todos_itens = @ \o res.itens,
                              !.saida = @ \cup {"subtotal"}]
            ELSE base))

\* lines 241-243: read the answer; ask for the next order or leave the loop
DoContinuar(r, linha) ==
    Bind(lower(strip(linha)), LAMBDA continuar :
        IF continuar \notin SIM
        THEN [r EXCEPT !.pc = "finalizacao", !.entrada = linha, !.continuar = continuar]
        ELSE [r EXCEPT !.pc = "pedido", !.entrada = linha, !.continuar = continuar])

\* the test of line 261 without the size of the file
file_exists_sem_tamanho(csv) == csv.existe

\* line 261
file_exists(csv) == csv.existe /\ Len(csv.linhas) > 0

\* line 271
linha_csv(cliente, todos_itens, total_final) ==
    <<cliente, join(<<" ", "|", " ">>, todos_itens), <<"R", "$">> \o fmt2f_milhar(total_final)>>

\* lines 263-271: open for appending, the header if the file was absent or
\* empty, then the row of the session
escreve_csv(csv, cliente, todos_itens, total_final) ==
    [existe |-> TRUE,
     linhas |-> csv.linhas
                  \o (IF ~file_exists(csv) THEN <<CABECALHO>> ELSE <<>>)
                  \o <<linha_csv(cliente, todos_itens, total_final)>>]

\* the test of line 250 replaced by a row for every session
tem_itens_sempre(todos_itens) == TRUE

\* line 250
tem_itens(todos_itens) == todos_itens # <<>>

\* lines 245-275: the summary, and the row in pedidos.csv if anything was ordered
DoFinalizacao(r) ==
    IF tem_itens(r.todos_itens)
    THEN [r EXCEPT !.pc = "fim",
                   !.csv = escreve_csv(r.csv, r.cliente, r.todos_itens, r.total_final),
                   !.saida = @ \cup {"resumo", "total", "salvo"}]
    ELSE [r EXCEPT !.pc = "fim", !.saida = @ \cup {"resumo", "nenhum_item"}]

(***************************************************************************)
(* The state: the run of the program, the number of runs started and of    *)
(* order rounds in all of them; `outra' is a second run of the same        *)
(* program, used only by SpecPair.                                         *)
(***************************************************************************)
VARIABLES run, outra, sessoes, rodadas

vars == <<run, outra, sessoes, rodadas>>

CSV_AUSENTE == [existe |-> FALSE, linhas |-> <<>>]

CSV_VAZIO == [existe |-> TRUE, linhas |-> <<>>]

Parada == NewRun(CSV_AUSENTE)

Init ==
    /\ run \in {NewRun(CSV_AUSENTE), NewRun(CSV_VAZIO)}
    /\ outra = Parada
    /\ sessoes = 1
    /\ rodadas = 0

\* an order that starts a round
EhRodada(linha) == ~is_sair(strip(linha)) /\ strip(linha) # <<>>

Load ==
    /\ run.pc = "inicio"
    /\ \E pdf \in PDFS : run' = DoLoad(run, pdf)
    /\ UNCHANGED <<outra, sessoes, rodadas>>

Nome ==
    /\ run.pc = "nome"
    /\ \E linha \in NOMES : run' = DoNome(run, linha)
    /\ UNCHANGED <<outra, sessoes, rodadas>>

Pedido ==
    /\ run.pc = "pedido"
    /\ \E linha \in PEDIDOS :
          /\ EhRodada(linha) => rodadas < MaxRounds
          /\ run' = DoPedido(run, linha)
          /\ rodadas' = IF EhRodada(linha) THEN rodadas + 1 ELSE rodadas
    /\ UNCHANGED <<outra, sessoes>>

LLM ==
    /\ run.pc = "llm"
    /\ \E svc \in SERVICO : run' = DoLLM(run, svc)
    /\ UNCHANGED <<outra, sessoes, rodadas>>

Calculo ==
    /\ run.pc = "calculo"
    /\ run' = DoCalculo(run)
    /\ UNCHANGED <<outra, sessoes, rodadas>>

Continuar ==
    /\ run.pc = "continuar"
    /\ \E linha \in CONTINUAR : run' = DoContinuar(run, linha)
    /\ UNCHANGED <<outra, sessoes, rodadas>>

Finalizacao ==
    /\ run.pc = "finalizacao"
    /\ run' = DoFinalizacao(run)
    /\ UNCHANGED <<outra, sessoes, rodadas>>

\* the program is started again; pedidos.csv is as the last run left it
NovaSessao ==
    /\ run.pc \in {"fim", "abortado", "falha"}
    /\ sessoes < MaxSessions
    /\ run' = NewRun(run.csv)
    /\ sessoes' = sessoes + 1
    /\ UNCHANGED <<outra, rodadas>>

Next ==
    \/ Load
    \/ Nome
    \/ Pedido
    \/ LLM
    \/ Calculo
    \/ Continuar
    \/ Finalizacao
    \/ NovaSessao

Spec == Init /\ [][Next]_vars

(***************************************************************************)
(* Two runs of the program side by side: the same file pedidos.csv at the  *)
(* start, the same PDF and the same line typed at every prompt; only the   *)
(* outcome of each call of the service is chosen for each run on its own.  *)
(***************************************************************************)
InitPair ==
    /\ run \in {NewRun(CSV_AUSENTE), NewRun(CSV_VAZIO)}
    /\ outra = run
    /\ sessoes = 1
    /\ rodadas = 0

LoadPair ==
    /\ run.pc = "inicio" /\ outra.pc = "inicio"
    /\ \E pdf \in PDFS : run' = DoLoad(run, pdf) /\ outra' = DoLoad(outra, pdf)
    /\ UNCHANGED <<sessoes, rodadas>>

NomePair ==
    /\ run.pc = "nome" /\ outra.pc = "nome"
    /\ \E linha \in NOMES : run' = DoNome(run, linha) /\ outra' = DoNome(outra, linha)
    /\ UNCHANGED <<sessoes, rodadas>>

PedidoPair ==
    /\ run.pc = "pedido" /\ outra.pc = "pedido"
    /\ \E linha \in PEDIDOS :
          /\ EhRodada(linha) => rodadas < MaxRounds
          /\ run' = DoPedido(run, linha)
          /\ outra' = DoPedido(outra, linha)
          /\ rodadas' = IF EhRodada(linha) THEN rodadas + 1 ELSE rodadas
    /\ UNCHANGED sessoes

LLMPair ==
    /\ run.pc = "llm" /\ outra.pc = "llm"
    /\ \E svc1 \in SERVICO, svc2 \in SERVICO :
          run' = DoLLM(run, svc1) /\ outra' = DoLLM(outra, svc2)
    /\ UNCHANGED <<sessoes, rodadas>>

CalculoPair ==
    /\ run.pc = "calculo" /\ outra.pc = "calculo"
    /\ run' = DoCalculo(run)
    /\ outra' = DoCalculo(outra)
    /\ UNCHANGED <<sessoes, rodadas>>

ContinuarPair ==
    /\ run.pc = "continuar" /\ outra.pc = "continuar"
    /\ \E linha \in CONTINUAR :
          run' = DoContinuar(run, linha) /\ outra' = DoContinuar(outra, linha)
    /\ UNCHANGED <<sessoes, rodadas>>

FinalizacaoPair ==
    /\ run.pc = "finalizacao" /\ outra.pc = "finalizacao"
    /\ run' = DoFinalizacao(run)
    /\ outra' = DoFinalizacao(outra)
    /\ UNCHANGED <<sessoes, rodadas>>

NovaSessaoPair ==
    /\ run.pc \in {"fim", "abortado", "falha"}
    /\ outra.pc \in {"fim", "abortado", "falha"}
    /\ sessoes < MaxSessions
    /\ run' = NewRun(run.csv)
    /\ outra' = NewRun(outra.csv)
    /\ sessoes' = sessoes + 1
    /\ UNCHANGED rodadas

NextPair ==
    \/ LoadPair
    \/ NomePair
    \/ PedidoPair
    \/ LLMPair
    \/ CalculoPair
    \/ ContinuarPair
    \/ FinalizacaoPair
    \/ NovaSessaoPair

SpecPair == InitPair /\ [][NextPair]_vars

(***************************************************************************)
(* Reading back what the program wrote: a line item is                     *)
(* "<qtd> <nome> -- R$<subtotal>", a total is "R$<amount>".                *)
(***************************************************************************)
\* the amount a text "12.34" or "1,234.56" shows, in thousandths
AmountOf(text) ==
    Bind(SelectSeq(text, LAMBDA c : c # ","), LAMBDA plain :
        10 * (100 * int(SubSeq(plain, 1, Len(plain) - 3))
                + 10 * DigitVal(plain[Len(plain) - 1]) + DigitVal(plain[Len(plain)])))

LastDollar(text) == CHOOSE i \in 1..Len(text) :
                        text[i] = "$" /\ \A k \in (i + 1)..Len(text) : text[k] # "$"

ItemQtd(item) == int(SubSeq(item, 1, DigitRun(item, 1)))

ItemSubtotal(item) == AmountOf(SubSeq(item, LastDollar(item) + 1, Len(item)))

ItemNome(item) == SubSeq(item, DigitRun(item, 1) + 2, LastDollar(item) - Len(ITEM_SEP))

RECURSIVE SumSeq(_, _)
SumSeq(nums, i) == IF i > Len(nums) THEN 0 ELSE nums[i] + SumSeq(nums, i + 1)

\* the phrases of the order of this round, each with what the tokenizer
\* and the matcher make of it
Frases ==
    Bind(palavras_de(run.pedido_text), LAMBDA ps :
        [k \in 1..Len(ps) |->
            Bind(qtd_e_nome(ps[k]), LAMBDA qn :
                [qtd |-> qn.qtd, descricao |-> qn.prod_nome_raw,
                 match |-> get_close_matches(qn.prod_nome_raw,
                                             nomes_prod_norm(run.produtos_cardapio))])])

Casadas(frases) == SelectSeq(frases, LAMBDA f : f.match # <<>>)

NaoCasadas(frases) == SelectSeq(frases, LAMBDA f : f.match = <<>>)

\* the aggregation of this round has just returned
AposCalculo == run.pc = "continuar"

(***************************************************************************)
(* C1: in one call of calcular_pedido_completo every phrase of the order   *)
(* ends either as a line item (it matched a catalog name) or as a warning  *)
(* that carries its description (it matched none); the phrases after an    *)
(* unmatched one are still processed, so items + warnings = phrases.       *)
(***************************************************************************)
C1_EveryPhraseAccounted ==
    AposCalculo =>
        Bind(Frases, LAMBDA fs :
            /\ Len(run.itens) + Len(run.avisos) = Len(fs)
            /\ Len(run.itens) = Len(Casadas(fs))
            /\ run.avisos = [k \in 1..Len(NaoCasadas(fs)) |-> NaoCasadas(fs)[k].descricao])

\* an unmatched phrase was followed by a matched one
C1_Witness ==
    /\ AposCalculo
    /\ Len(Frases) >= 2
    /\ Frases[1].match = <<>>
    /\ Frases[2].match # <<>>
    /\ run.avisos # <<>>
    /\ run.itens # <<>>

(***************************************************************************)
(* C2: each matched phrase, of quantity q and matched entry of price p,    *)
(* yields a line item of subtotal p*q, the line items are in phrase order, *)
(* the total of the round is the sum of the subtotals of the matched       *)
(* phrases rounded once, and it is 0 with no line item when none matched.  *)
(***************************************************************************)
C2_SubtotalsAndTotal ==
    AposCalculo =>
        Bind(Casadas(Frases), LAMBDA ms :
        Bind([k \in 1..Len(ms) |-> mapa_produtos(run.produtos_cardapio, ms[k].match[1])],
             LAMBDA es :
            /\ Len(run.itens) = Len(ms)
            /\ \A k \in 1..Len(ms) :
                  /\ ItemQtd(run.itens[k]) = ms[k].qtd
                  /\ ItemNome(run.itens[k]) = es[k].nome
                  /\ ItemSubtotal(run.itens[k]) = es[k].preco * ms[k].qtd
            /\ run.total = SumSeq([k \in 1..Len(ms) |-> es[k].preco * ms[k].qtd], 1)
            /\ (ms = <<>> => run.total = 0 /\ run.itens = <<>>)))

\* two phrases matched, one of them with a quantity above 1
C2_Witness ==
    /\ AposCalculo
    /\ Len(run.itens) >= 2
    /\ \E k \in 1..Len(run.itens) : ItemQtd(run.itens[k]) >= 2
    /\ run.total > 0

(***************************************************************************)
(* C3 (as claimed): an unreadable document, or one without any entry,      *)
(* aborts before the name prompt, any round, any call of the service and   *)
(* any write to the log; a readable document with at least one entry       *)
(* always reaches the name prompt.                                         *)
(***************************************************************************)
C3_AbortOnlyWithoutCatalog ==
    run.pc # "inicio" =>
        Bind(run.pdf.legivel /\ extract_products(load_pdf_text(run.pdf)) # <<>>,
             LAMBDA temCatalogo :
                /\ ~temCatalogo =>
                      /\ run.pc = "abortado"
                      /\ run.saida \cap {"prompt_nome", "prompt_pedido", "salvo"} = {}
                      /\ run.chamadas_llm = 0
                      /\ run.chamadas_calculo = 0
                /\ temCatalogo => "prompt_nome" \in run.saida)

(***************************************************************************)
(* C4: two runs with the same catalog and the same inputs, whatever the    *)
(* service returns to each (any text, or a failure), are at the same place *)
(* with the same line items, the same totals and the same pedidos.csv; no  *)
(* run stops at a failure of the service, and every call of the service in *)
(* a round is followed by the aggregation of that round.                   *)
(***************************************************************************)
Financeiro(r) ==
    <<r.pc, r.cliente, r.total, r.itens, r.avisos, r.total_final, r.todos_itens,
      r.csv, r.chamadas_calculo>>

Agregou(r) ==
    /\ r.pc # "falha"
    /\ r.chamadas_llm = r.chamadas_calculo + (IF r.pc = "calculo" THEN 1 ELSE 0)

C4_ServiceIndependence ==
    /\ Financeiro(run) = Financeiro(outra)
    /\ Agregou(run)
    /\ Agregou(outra)

\* the service failed in one run and answered in the other, and both runs
\* have written their row
C4_Witness ==
    /\ run.pc = "fim" /\ outra.pc = "fim"
    /\ "salvo" \in run.saida
    /\ startswith(run.resposta, DESCULPE)
    /\ ~startswith(outra.resposta, DESCULPE)

(***************************************************************************)
(* C5 (as claimed): every session whose ordering loop ends appends exactly *)
(* one row to the order log, whatever was ordered.                         *)
(***************************************************************************)
\* the rows of the log that are not its header
NumDados(csv) ==
    Len(csv.linhas) - (IF Len(csv.linhas) > 0 /\ csv.linhas[1] = CABECALHO THEN 1 ELSE 0)

FimDeSessao == run.pc = "finalizacao" /\ run'.pc = "fim"

C5_OneRowPerSession ==
    [][FimDeSessao => NumDados(run'.csv) = NumDados(run.csv) + 1]_vars

(***************************************************************************)
(* C5 (amended): a session whose ordering loop ends with at least one      *)
(* accumulated line item appends exactly one row, the row of its customer  *)
(* (after a header row if the log was absent or empty); one that ends with *)
(* no accumulated line item leaves the log as it was; the log changes at   *)
(* no other step.                                                          *)
(***************************************************************************)
C5_OneRowPerSessionWithItems ==
    [][/\ FimDeSessao /\ run.todos_itens # <<>> =>
            /\ NumDados(run'.csv) = NumDados(run.csv) + 1
            /\ run'.csv.linhas[Len(run'.csv.linhas)][1] = run.cliente
       /\ FimDeSessao /\ run.todos_itens = <<>> => run'.csv = run.csv
       /\ ~FimDeSessao => run'.csv = run.csv]_vars

\* a session that accumulated line items has ended and its row is written
C5_Witness ==
    /\ run.pc = "fim"
    /\ run.todos_itens # <<>>
    /\ "salvo" \in run.saida
    /\ NumDados(run.csv) >= 1

(***************************************************************************)
(* C6: the log is append-only and has a single header: a non-empty log     *)
(* starts with the header row and has no other header row; a write keeps   *)
(* every row already there, and adds a header row exactly when the log was *)
(* absent or empty.                                                        *)
(***************************************************************************)
C6_LogShape ==
    Len(run.csv.linhas) > 0 =>
        /\ run.csv.linhas[1] = CABECALHO
        /\ \A i \in 2..Len(run.csv.linhas) : run.csv.linhas[i] # CABECALHO

C6_Append ==
    /\ Len(run'.csv.linhas) >= Len(run.csv.linhas)
    /\ SubSeq(run'.csv.linhas, 1, Len(run.csv.linhas)) = run.csv.linhas
    /\ run'.csv.linhas # run.csv.linhas =>
          Len(run'.csv.linhas) = Len(run.csv.linhas)
                                   + (IF Len(run.csv.linhas) = 0 THEN 2 ELSE 1)

C6_AppendOnlySingleHeader == [](C6_LogShape) /\ [][C6_Append]_vars

\* two sessions have written to the same log
C6_Witness ==
    /\ sessoes = 2
    /\ run.pc = "fim"
    /\ "salvo" \in run.saida
    /\ Len(run.csv.linhas) = 3

(***************************************************************************)
(* C7: when the line typed at the order prompt is an exit keyword, in any  *)
(* letter case and with blanks around it, the loop ends at once: no call   *)
(* of the service, no aggregation, no continue question, the running total *)
(* and the line items as they were, finalization next.  The loop is left   *)
(* only from the order prompt or from the continue question.               *)
(***************************************************************************)
IgualSemCaixa(a, b) ==
    Len(a) = Len(b) /\ \A i \in 1..Len(a) : LowerChar(a[i]) = LowerChar(b[i])

PalavraDeSaida(linha) == \E w \in SAIR : IgualSemCaixa(strip(linha), w)

C7_ExitStep ==
    (run.pc = "pedido" /\ run' # run /\ PalavraDeSaida(run'.entrada)) =>
        /\ run'.pc = "finalizacao"
        /\ run'.chamadas_llm = run.chamadas_llm
        /\ run'.chamadas_calculo = run.chamadas_calculo
        /\ run'.total_final = run.total_final
        /\ run'.todos_itens = run.todos_itens
        /\ run'.saida = run.saida

C7_LeaveOnlyAtPrompts ==
    (run'.pc = "finalizacao" /\ run.pc # "finalizacao") => run.pc \in {"pedido", "continuar"}

C7_ExitKeywordEndsLoop == [][C7_ExitStep /\ C7_LeaveOnlyAtPrompts]_vars

\* the keyword typed in capitals with blanks, after a round was processed
C7_Witness ==
    /\ run.pc = "finalizacao"
    /\ run.entrada = <<" ", "S", "A", "I", "R", " ">>
    /\ run.chamadas_calculo >= 1

(***************************************************************************)
(* C8 (as claimed): every phrase the tokenizer produces has a quantity of  *)
(* at least 1, and so has every line item built from a phrase.             *)
(***************************************************************************)
C8_QuantityAtLeastOne ==
    AposCalculo =>
        /\ \A k \in 1..Len(Frases) : Frases[k].qtd >= 1
        /\ \A k \in 1..Len(run.itens) : ItemQtd(run.itens[k]) >= 1

(***************************************************************************)
(* C9 (as claimed): every entry of the extracted catalog has a unit price  *)
(* above 0 and a name that is not empty.                                   *)
(***************************************************************************)
C9_PositivePriceAndName ==
    \A k \in 1..Len(run.produtos_cardapio) :
        /\ run.produtos_cardapio[k].preco > 0
        /\ run.produtos_cardapio[k].nome # <<>>

(***************************************************************************)
(* C10: in a session the running total is the sum of the subtotals of the  *)
(* accumulated line items; these are, in round order, the line items of    *)
(* exactly the rounds whose total was above 0; the list is empty exactly   *)
(* when the running total is 0; every logged row carries a total above 0.  *)
(***************************************************************************)
C10_State ==
    /\ run.total_final
         = SumSeq([k \in 1..Len(run.todos_itens) |-> ItemSubtotal(run.todos_itens[k])], 1)
    /\ (run.todos_itens = <<>>) <=> (run.total_final = 0)
    /\ \A i \in 1..Len(run.csv.linhas) :
          run.csv.linhas[i] # CABECALHO =>
              AmountOf(SubSeq(run.csv.linhas[i][3], 3, Len(run.csv.linhas[i][3]))) > 0

C10_Step ==
    IF run.pc = "calculo" /\ run'.pc = "continuar"
    THEN /\ run'.todos_itens = (IF run'.total > 0 THEN run.todos_itens \o run'.itens
                                ELSE run.todos_itens)
         /\ run'.total_final = (IF run'.total > 0 THEN run.total_final + run'.total
                                ELSE run.total_final)
    ELSE IF run'.pc = "inicio"
    THEN run'.todos_itens = <<>> /\ run'.total_final = 0
    ELSE run'.todos_itens = run.todos_itens /\ run'.total_final = run.total_final

C10_RunningTotal == [](C10_State) /\ [][C10_Step]_vars

\* a round that matched but totals 0, after a round that was accumulated
C10_Witness ==
    /\ AposCalculo
    /\ run.total = 0
    /\ run.itens # <<>>
    /\ run.todos_itens # <<>>
====
